---- MODULE Spec2Model ----
(***************************************************************************)
(* Stock-reservation engine of the backend (NestJS + TypeORM on Postgres, *)
(* Bull delayed jobs, a cron sweep).                                       *)
(*                                                                         *)
(* The store is Postgres at its default isolation, READ COMMITTED:         *)
(*   - SELECT ... FOR UPDATE (setLock('pessimistic_write')) waits for the  *)
(*     row lock and then reads the latest committed version of the row;    *)
(*   - a plain read (findOneBy) takes no lock and returns the committed    *)
(*     version, overlaid with the transaction's own writes;                *)
(*   - repository.save(entity) of a loaded entity issues                   *)
(*     UPDATE ... SET col = <value held by the entity>, an absolute write  *)
(*     that waits for the row lock;                                        *)
(*   - writes become visible to others at COMMIT, which releases the locks;*)
(*   - a cyclic lock wait is broken by aborting one of the transactions.   *)
(*                                                                         *)
(* Time is counted in minutes (the TTL of the code is 2 * 60 * 1000 ms).   *)
(***************************************************************************)
EXTENDS Integers, FiniteSets, Sequences

\* ---------------------------------------------------------------- bounds
MaxTime == 3          \* the clock runs 0..MaxTime
MaxRes == 2           \* reservation rows ever inserted
MaxQty == 2           \* largest quantity a request asks for
MaxStock == 2         \* seeded availableStock of the first product

\* ------------------------------------------------------------- constants
TTL == 2              \* newExpiresAt = Date.now() + 2 * 60 * 1000

Products == {"p1", "p2"}
ProductInputs == Products \cup {"px"}      \* "px": an id of no product
Users == {"u1", "u2"}
UserInputs == Users \cup {""}             \* "": the falsy userId
Ids == 1..MaxRes
Qtys == 0..MaxQty
Procs == {1, 2, 3}                         \* transactions in flight, SpecRace
MainProcs == {1, 2}                        \* ... in Spec
SerialProcs == {1}                         \* ... in SpecSerial

InitStock == [p \in Products |-> IF p = "p1" THEN MaxStock ELSE MaxStock - 1]

Max(a, b) == IF a >= b THEN a ELSE b
Min(a, b) == IF a <= b THEN a ELSE b

EmptyF == [x \in {} |-> 0]
Overlay(f, g) ==
  [x \in DOMAIN f \cup DOMAIN g |-> IF x \in DOMAIN g THEN g[x] ELSE f[x]]

RECURSIVE SortedSeq(_)
SortedSeq(S) ==
  IF S = {} THEN <<>>
  ELSE LET m == CHOOSE x \in S : \A y \in S : x <= y
       IN <<m>> \o SortedSeq(S \ {m})

RECURSIVE SumOver(_, _)
SumOver(S, f) ==
  IF S = {} THEN 0
  ELSE LET x == CHOOSE y \in S : TRUE IN f[x] + SumOver(S \ {x}, f)

\* ----------------------------------------------------------------- state
VARIABLES
  stock,   \* Product.availableStock, committed
  total,   \* the stock each product was seeded with (never changes)
  res,     \* Reservation rows, committed; status "NONE" = no such row
  now,     \* the clock
  tx,      \* the transaction each slot is running
  jobs,    \* delayed 'expire-reservation' jobs in the Bull queue
  last,    \* the call that has just returned, how, and what it published
  trans,   \* per row: committed transitions out of ACTIVE
  rel,     \* per row: committed stock releases made for it
  race,    \* tally of the create-only run (SpecRace)
  mode,    \* which run this is: "main", "serial" or "race" (never changes)
  early    \* the database of the earlier ReservationsService, run alongside

vars ==
  <<stock, total, res, now, tx, jobs, last, trans, rel, race, mode, early>>

NoRow == [user |-> "", prod |-> "", qty |-> 0, status |-> "NONE", exp |-> 0]

IdleTx ==
  [pc |-> "idle", op |-> "none", user |-> "", prod |-> "", qty |-> 0, id |-> 0,
   snap |-> 0, newExp |-> 0, snapNow |-> 0, existing |-> 0,
   pl |-> {}, rl |-> {}, pst |-> EmptyF, pres |-> EmptyF, ins |-> NoRow,
   queue |-> <<>>, pub |-> {}]

NoLast ==
  [op |-> "none", id |-> 0, branch |-> "none", out |-> "none", pub |-> {}]
NoRace == [n |-> 0, s |-> 0, left |-> 0, ok |-> 0, insufficient |-> 0]

\* The earlier variant before any call: the seeded products, no reservations.
NoCall == [op |-> "none", user |-> "", prod |-> "", qty |-> 0, id |-> 0]
NoEarly ==
  [stock |-> InitStock, res |-> [id \in Ids |-> NoRow], out |-> "none",
   call |-> NoCall]

\* What the caller gets for each way a handler ends.
Outcome(branch) ==
  CASE branch = "invalid" -> "InvalidArgument"
    [] branch \in {"product_notfound", "notfound"} -> "NotFound"
    [] branch = "insufficient" -> "InsufficientStock"
    [] branch = "already_expired" -> "AlreadyExpired"
    [] branch = "deadlock" -> "Deadlock"
    [] branch = "schedule_failed" -> "SchedulerError"
    [] branch = "absent" -> "null"
    [] OTHER -> "ok"

\* The websocket events a handler emits once its transaction has returned:
\* "user" is emitUserReservationsUpdated, "products" is emitProductsUpdated.
\* A handler that throws emits nothing.  Otherwise create, complete and cancel
\* emit "user" always and "products" when the transaction returned a product;
\* expireReservation emits "user" when it found the row and "products" when
\* it returned a product.  The sweep emits nothing.
Published(op, branch) ==
  CASE branch \in {"insert", "merge", "cancelled", "expired_on_read",
                   "expired"} -> {"user", "products"}
    [] branch \in {"already_completed", "completed"} -> {"user"}
    [] branch = "not_active" -> {"user"}
    [] branch = "not_due" -> {"user"}
    [] OTHER -> {}

\* ----------------------------------------------------------------- locks
\* Mutant: the product row is read without the FOR UPDATE lock.
ProductNeverLocked(p, pr) == FALSE

ProductLockedByOther(p, pr) == \E q \in Procs \ {p} : pr \in tx[q].pl
RowLockedByOther(p, id) == \E q \in Procs \ {p} : id \in tx[q].rl
ProductHolders(p, S) == {q \in Procs \ {p} : tx[q].pl \cap S # {}}
RowHolders(p, S) == {q \in Procs \ {p} : tx[q].rl \cap S # {}}

\* A read inside transaction p: the committed value, or p's own write.
StockView(t, pr) == IF pr \in DOMAIN t.pst THEN t.pst[pr] ELSE stock[pr]
RowView(t, id) == IF id \in DOMAIN t.pres THEN t.pres[id] ELSE res[id]

Rows == {id \in Ids : res[id].status # "NONE"}
NextId == CHOOSE id \in Ids \ Rows : \A j \in Ids \ Rows : id <= j

Slots ==
  CASE mode = "main" -> MainProcs
    [] mode = "serial" -> SerialProcs
    [] OTHER -> Procs
BeginSlot(p) ==
  /\ p \in Slots
  /\ tx[p].pc = "idle"
  /\ \A q \in Slots : q < p => tx[q].pc # "idle"

\* ------------------------------------------------------- ends of a handler
Tally(branch) ==
  IF mode # "race" THEN race
  ELSE IF branch \in {"insert", "merge"} THEN [race EXCEPT !.ok = @ + 1]
  ELSE IF branch = "insufficient"
       THEN [race EXCEPT !.insufficient = @ + 1]
  ELSE race

\* The handler returns (or throws): the slot is free again.  Spec, the run
\* with overlapping transactions, does not record what calls return.
Finish(p, op, id, branch) ==
  /\ tx' = [tx EXCEPT ![p] = IdleTx]
  /\ last' = IF mode = "main" THEN NoLast
             ELSE [op |-> op, id |-> id, branch |-> branch,
                   out |-> Outcome(branch),
                   pub |-> tx[p].pub \cup Published(op, branch)]
  /\ UNCHANGED <<mode, early>>

\* Returns or throws having written nothing: nothing to commit or roll back.
\* (The queue is left to the caller: a delivered job is removed from it.)
FinishNoWrite(p, op, id, branch) ==
  /\ Finish(p, op, id, branch)
  /\ UNCHANGED <<stock, total, res, now, trans, rel>>

Init ==
  /\ stock = InitStock
  /\ total = InitStock
  /\ res = [id \in Ids |-> NoRow]
  /\ now = 0
  /\ tx = [p \in Procs |-> IdleTx]
  /\ jobs = {}
  /\ last = NoLast
  /\ trans = [id \in Ids |-> 0]
  /\ rel = [id \in Ids |-> 0]
  /\ race = NoRace
  /\ mode = "main"
  /\ early = NoEarly

\* ---------------------------------------------------------------- create
\* Mutants: the lookup finds nothing, so every create inserts; the lookup
\* skips rows whose expiresAt has passed.
FindActiveNever(u, pr) == {}
FindActiveNotOverdue(u, pr) ==
  {id \in Ids : /\ res[id].status = "ACTIVE"
                /\ res[id].user = u
                /\ res[id].prod = pr
                /\ res[id].exp > now}

\* The ACTIVE rows of (userId, productId): the FOR UPDATE lookup of create.
FindActive(u, pr) ==
  {id \in Ids : /\ res[id].status = "ACTIVE"
                /\ res[id].user = u
                /\ res[id].prod = pr}

\* Mutant: the renew-all UPDATE without its userId condition.
RenewTargetsAllUsers(u) == {id \in Ids : res[id].status = "ACTIVE"}

\* The rows the renew-all UPDATE matches: every ACTIVE row of the user.
RenewTargets(u) ==
  {id \in Ids : res[id].status = "ACTIVE" /\ res[id].user = u}

\* Creates in flight that may still insert a row (not yet known to merge).
InFlightInserts ==
  Cardinality({q \in Procs : /\ tx[q].op = "create"
                              /\ (tx[q].pc = "c_find" \/ tx[q].existing = 0)})

\* Mutants: the stock check is missing; the stock check is off by one.
InsufficientNever(s, q) == FALSE
InsufficientOffByOne(s, q) == s + 1 < q

\* if (product.availableStock < quantity) throw 'Not enough stock'
Insufficient(s, q) == s < q

\* createReservation up to newExpiresAt: argument checks, product lock,
\* stock check, deduction.
CreateBegin(p, u, pr, q) ==
  /\ BeginSlot(p)
  /\ mode = "race" \/ Cardinality(Rows) + InFlightInserts < MaxRes
  /\ mode = "race" => race.left > 0
  /\ race' = [Tally(IF u # "" /\ q > 0 /\ pr \in Products
                       /\ Insufficient(stock[pr], q)
                    THEN "insufficient" ELSE "none")
               EXCEPT !.left = IF mode = "race" THEN @ - 1 ELSE @]
  /\ \/ /\ (u = "" \/ q <= 0)
        /\ FinishNoWrite(p, "create", 0, "invalid")
        /\ UNCHANGED jobs
     \/ /\ u # "" /\ q > 0
        /\ pr \notin Products
        /\ FinishNoWrite(p, "create", 0, "product_notfound")
        /\ UNCHANGED jobs
     \/ /\ u # "" /\ q > 0
        /\ pr \in Products
        /\ ~ProductLockedByOther(p, pr)
        /\ Insufficient(stock[pr], q)
        /\ FinishNoWrite(p, "create", 0, "insufficient")
        /\ UNCHANGED jobs
     \/ /\ u # "" /\ q > 0
        /\ pr \in Products
        /\ ~ProductLockedByOther(p, pr)
        /\ ~Insufficient(stock[pr], q)
        /\ tx' = [tx EXCEPT ![p] =
                    [IdleTx EXCEPT !.pc = "c_find", !.op = "create",
                       !.user = u, !.prod = pr, !.qty = q,
                       !.pl = {pr},
                       !.pst = [x \in {pr} |-> stock[pr] - q],
                       !.newExp = now + TTL]]
        /\ last' = NoLast /\ UNCHANGED <<mode, early>>
        /\ UNCHANGED <<stock, total, res, now, jobs, trans, rel>>

\* Lookup of the existing ACTIVE row under lock, then merge or insert.
CreateFind(p) ==
  LET t == tx[p]
      m == FindActive(t.user, t.prod)
  IN /\ t.pc = "c_find"
     /\ RowHolders(p, m) = {}
     /\ \/ /\ m # {}
           /\ LET e == CHOOSE id \in m : \A j \in m : id <= j
              IN tx' = [tx EXCEPT ![p] =
                   [t EXCEPT !.pc = "c_renew", !.existing = e,
                      !.rl = m,
                      !.pres = [x \in {e} |->
                                  [res[e] EXCEPT !.qty = @ + t.qty,
                                                 !.exp = t.newExp]]]]
        \/ /\ m = {}
           /\ tx' = [tx EXCEPT ![p] =
                   [t EXCEPT !.pc = "c_renew", !.existing = 0,
                      !.ins = [user |-> t.user, prod |-> t.prod,
                               qty |-> t.qty, status |-> "ACTIVE",
                               exp |-> t.newExp]]]
     /\ last' = NoLast /\ UNCHANGED <<mode, early>>
     /\ UNCHANGED <<stock, total, res, now, jobs, trans, rel, race>>

\* UPDATE reservation SET expiresAt = newExpiresAt
\*   WHERE userId = :userId AND status = 'ACTIVE'
CreateRenew(p) ==
  LET t == tx[p]
      targets == RenewTargets(t.user)
  IN /\ t.pc = "c_renew"
     /\ RowHolders(p, targets) = {}
     /\ tx' = [tx EXCEPT ![p] =
                 [t EXCEPT !.pc = "c_commit",
                    !.rl = @ \cup targets,
                    !.pres = Overlay(@, [id \in targets |->
                                [RowView(t, id) EXCEPT !.exp = t.newExp]])]]
     /\ last' = NoLast /\ UNCHANGED <<mode, early>>
     /\ UNCHANGED <<stock, total, res, now, jobs, trans, rel, race>>

\* The delayed job is added, the transaction commits, the handler returns.
CreateCommit(p) ==
  LET t == tx[p]
      rid == IF t.existing # 0 THEN t.existing ELSE NextId
  IN /\ t.pc = "c_commit"
     /\ stock' = Overlay(stock, t.pst)
     /\ res' = IF t.existing # 0
               THEN Overlay(res, t.pres)
               ELSE Overlay(Overlay(res, t.pres), [x \in {rid} |-> t.ins])
     /\ jobs' = jobs \cup {[id |-> rid, fireAt |-> Max(t.newExp, now)]}
     /\ race' = Tally(IF t.existing # 0 THEN "merge" ELSE "insert")
     /\ Finish(p, "create", rid, IF t.existing # 0 THEN "merge" ELSE "insert")
     /\ UNCHANGED <<total, now, trans, rel>>

\* ---------------------------------------------- release of a reservation
\* Mutant: the release saves the product without adding the quantity back.
ReleasedStockNothing(t) == t.snap

\* The tail shared by cancel, expire and complete's expired-on-read path:
\*   product.availableStock += existing.quantity; save(product)
\*   existing.status = EXPIRED; existing.expiresAt = new Date(); save(existing)
\* The product was read without a lock (findOneBy) into t.snap when the row
\* was locked; save(product) writes the value the entity holds.
ReleasedStock(t) == t.snap + res[t.id].qty

ReleaseCommit(p, branch) ==
  LET t == tx[p]
  IN /\ t.pc = "write"
     /\ ~ProductLockedByOther(p, t.prod)
     /\ stock' = [stock EXCEPT ![t.prod] = ReleasedStock(t)]
     /\ res' = [res EXCEPT ![t.id] = [@ EXCEPT !.status = "EXPIRED",
                                                !.exp = now]]
     /\ trans' = [trans EXCEPT ![t.id] = @ + 1]
     /\ rel' = [rel EXCEPT ![t.id] = @ + 1]
     /\ Finish(p, t.op, t.id, branch)
     /\ UNCHANGED <<total, now, jobs, race>>

\* The row is locked and ACTIVE: read the product, go on to the release.
ReleaseBegin(p, op, id) ==
  /\ tx' = [tx EXCEPT ![p] =
              [IdleTx EXCEPT !.pc = "write", !.op = op, !.id = id,
                 !.prod = res[id].prod, !.rl = {id},
                 !.snap = stock[res[id].prod]]]
  /\ last' = NoLast /\ UNCHANGED <<mode, early>>
  /\ UNCHANGED <<stock, total, res, now, trans, rel, race>>

\* ---------------------------------------------------------------- cancel
\* Mutants: cancel without the status check; cancel that only checks for
\* COMPLETED.
CancelNoopNever(row) == FALSE
CancelNoopCompletedOnly(row) == row.status = "COMPLETED"

\* cancel does nothing unless the row is ACTIVE.
CancelNoop(row) == row.status # "ACTIVE"

CancelBegin(p, id) ==
  /\ BeginSlot(p)
  /\ \/ /\ res[id].status = "NONE"
        /\ FinishNoWrite(p, "cancel", id, "notfound")
        /\ UNCHANGED <<jobs, race>>
     \/ /\ res[id].status # "NONE"
        /\ ~RowLockedByOther(p, id)
        /\ CancelNoop(res[id])
        /\ FinishNoWrite(p, "cancel", id, "not_active")
        /\ UNCHANGED <<jobs, race>>
     \/ /\ res[id].status # "NONE"
        /\ ~RowLockedByOther(p, id)
        /\ ~CancelNoop(res[id])
        /\ ReleaseBegin(p, "cancel", id)
        /\ UNCHANGED jobs

CancelWrite(p) ==
  /\ tx[p].op = "cancel"
  /\ ReleaseCommit(p, "cancelled")

\* -------------------------------------------------------------- complete
\* Mutants: complete without the check for an already COMPLETED row; complete
\* without the check for an already EXPIRED row.
CompleteBranchNoCompletedCheck(row, t) ==
  IF row.status = "EXPIRED" THEN "already_expired"
  ELSE IF row.exp <= t THEN "expired_on_read"
  ELSE "completed"

CompleteBranchNoExpiredCheck(row, t) ==
  IF row.status = "COMPLETED" THEN "already_completed"
  ELSE IF row.exp <= t THEN "expired_on_read"
  ELSE "completed"

\* The branch completeReservation takes on the locked row.
CompleteBranch(row, t) ==
  IF row.status = "COMPLETED" THEN "already_completed"
  ELSE IF row.status = "EXPIRED" THEN "already_expired"
  ELSE IF row.exp <= t THEN "expired_on_read"
  ELSE "completed"

CompleteBegin(p, id) ==
  /\ BeginSlot(p)
  /\ \/ /\ res[id].status = "NONE"
        /\ FinishNoWrite(p, "complete", id, "notfound")
        /\ UNCHANGED <<jobs, race>>
     \/ /\ res[id].status # "NONE"
        /\ ~RowLockedByOther(p, id)
        /\ CompleteBranch(res[id], now) \in
             {"already_completed", "already_expired"}
        /\ FinishNoWrite(p, "complete", id, CompleteBranch(res[id], now))
        /\ UNCHANGED <<jobs, race>>
     \/ /\ res[id].status # "NONE"
        /\ ~RowLockedByOther(p, id)
        /\ CompleteBranch(res[id], now) = "expired_on_read"
        /\ ReleaseBegin(p, "complete", id)
        /\ UNCHANGED jobs
     \/ /\ res[id].status # "NONE"
        /\ ~RowLockedByOther(p, id)
        /\ CompleteBranch(res[id], now) = "completed"
        /\ res' = [res EXCEPT ![id] = [@ EXCEPT !.status = "COMPLETED"]]
        /\ trans' = [trans EXCEPT ![id] = @ + 1]
        /\ Finish(p, "complete", id, "completed")
        /\ UNCHANGED <<stock, total, now, jobs, rel, race>>

CompleteExpireWrite(p) ==
  /\ tx[p].op = "complete"
  /\ ReleaseCommit(p, "expired_on_read")

\* ---------------------------------------------------------- expire (timer)
\* Mutants: expire without the status check; expire without the due check.
ExpireNoopDueOnly(row, t) == row.exp > t
ExpireNoopStatusOnly(row, t) == row.status # "ACTIVE"

\* expireReservation does nothing unless the row is ACTIVE and due.
ExpireNoop(row, t) == row.status # "ACTIVE" \/ row.exp > t

ExpireBegin(p, id) ==
  /\ BeginSlot(p)
  /\ \/ /\ res[id].status = "NONE"
        /\ FinishNoWrite(p, "expire", id, "absent")
        /\ UNCHANGED race
     \/ /\ res[id].status # "NONE"
        /\ ~RowLockedByOther(p, id)
        /\ ExpireNoop(res[id], now)
        /\ FinishNoWrite(p, "expire", id,
             IF res[id].status # "ACTIVE" THEN "not_active" ELSE "not_due")
        /\ UNCHANGED race
     \/ /\ res[id].status # "NONE"
        /\ ~RowLockedByOther(p, id)
        /\ ~ExpireNoop(res[id], now)
        /\ ReleaseBegin(p, "expire", id)

\* ReservationsProcessor.handleExpireReservation: a delayed job is delivered
\* at or after its time; delivery is at least once (keep = redelivered).
Fire(p, j, keep) ==
  /\ j \in jobs
  /\ now >= j.fireAt
  /\ jobs' = IF keep THEN jobs ELSE jobs \ {j}
  /\ ExpireBegin(p, j.id)

ExpireWrite(p) ==
  /\ tx[p].op = "expire"
  /\ ReleaseCommit(p, "expired")

\* ----------------------------------------------------------------- sweep
\* WHERE status = 'ACTIVE' AND expiresAt <= :now
Overdue(t) == {id \in Ids : res[id].status = "ACTIVE" /\ res[id].exp <= t}

\* const now = new Date() is read before the transaction starts, so the
\* query may run with an older clock value t0; then the FOR UPDATE query over
\* the overdue rows, and the first product read of the loop.
SweepSelect(p, t0) ==
  LET overdue == Overdue(t0)
      q == SortedSeq(overdue)
  IN /\ BeginSlot(p)
     /\ t0 <= now
     /\ RowHolders(p, overdue) = {}
     /\ \/ /\ overdue = {}
           /\ FinishNoWrite(p, "sweep", 0, "none")
           /\ UNCHANGED <<jobs, race>>
        \/ /\ overdue # {}
           /\ tx' = [tx EXCEPT ![p] =
                       [IdleTx EXCEPT !.pc = "sw_write", !.op = "sweep",
                          !.snapNow = t0, !.rl = overdue, !.queue = q,
                          !.snap = stock[res[q[1]].prod]]]
           /\ last' = NoLast /\ UNCHANGED <<mode, early>>
           /\ UNCHANGED <<stock, total, res, now, jobs, trans, rel, race>>

\* One pass of the loop body: save(product), save(res); then either the next
\* iteration's product read or the commit.
SweepWrite(p) ==
  LET t == tx[p]
      id == t.queue[1]
      pr == res[id].prod
      t2 == [t EXCEPT !.pl = @ \cup {pr},
                      !.pst = Overlay(@, [x \in {pr} |-> t.snap + res[id].qty]),
                      !.pres = Overlay(@, [x \in {id} |->
                                  [res[id] EXCEPT !.status = "EXPIRED"]]),
                      !.queue = Tail(@)]
  IN /\ t.pc = "sw_write"
     /\ ~ProductLockedByOther(p, pr)
     /\ \/ /\ t2.queue # <<>>
           /\ tx' = [tx EXCEPT ![p] =
                 [t2 EXCEPT !.snap = StockView(t2, res[t2.queue[1]].prod)]]
           /\ last' = NoLast /\ UNCHANGED <<mode, early>>
           /\ UNCHANGED <<stock, total, res, now, jobs, trans, rel, race>>
        \/ /\ t2.queue = <<>>
           /\ stock' = Overlay(stock, t2.pst)
           /\ res' = Overlay(res, t2.pres)
           /\ trans' = [i \in Ids |->
                          IF i \in DOMAIN t2.pres THEN trans[i] + 1
                          ELSE trans[i]]
           /\ rel' = [i \in Ids |->
                        IF i \in DOMAIN t2.pres THEN rel[i] + 1 ELSE rel[i]]
           /\ Finish(p, "sweep", 0, "swept")
           /\ UNCHANGED <<total, now, jobs, race>>

\* ------------------------------------------------------------- deadlocks
\* The transactions whose locks p is waiting for at its current statement.
WaitsFor(p) ==
  LET t == tx[p]
  IN CASE t.pc = "c_find" -> RowHolders(p, FindActive(t.user, t.prod))
       [] t.pc = "c_renew" -> RowHolders(p, RenewTargets(t.user))
       [] t.pc = "write" -> ProductHolders(p, {t.prod})
       [] t.pc = "sw_write" -> ProductHolders(p, {res[t.queue[1]].prod})
       [] OTHER -> {}

WaitsBeyond(S) == S \cup UNION {WaitsFor(q) : q \in S}
InCycle(p) == p \in WaitsBeyond(WaitsBeyond(WaitsFor(p)))

\* Postgres's deadlock detector aborts a transaction of the cycle: its writes
\* are rolled back, its locks released, and the call fails.
DeadlockAbort(p) ==
  /\ tx[p].pc # "idle"
  /\ InCycle(p)
  /\ FinishNoWrite(p, tx[p].op, tx[p].id, "deadlock")
  /\ UNCHANGED <<jobs, race>>

\* ----------------------------------------------------------------- clock
Tick ==
  /\ now < MaxTime
  /\ now' = now + 1
  /\ last' = NoLast /\ UNCHANGED <<mode, early>>
  /\ UNCHANGED <<stock, total, res, tx, jobs, trans, rel, race>>

Next ==
  \/ \E p \in Procs, u \in UserInputs, pr \in ProductInputs, q \in Qtys :
       CreateBegin(p, u, pr, q)
  \/ \E p \in Procs : CreateFind(p)
  \/ \E p \in Procs : CreateRenew(p)
  \/ \E p \in Procs : CreateCommit(p)
  \/ \E p \in Procs, id \in Ids : CancelBegin(p, id)
  \/ \E p \in Procs : CancelWrite(p)
  \/ \E p \in Procs, id \in Ids : CompleteBegin(p, id)
  \/ \E p \in Procs : CompleteExpireWrite(p)
  \/ \E p \in Procs, j \in jobs, keep \in BOOLEAN : Fire(p, j, keep)
  \/ \E p \in Procs : ExpireWrite(p)
  \/ \E p \in Procs, t0 \in 0..MaxTime : SweepSelect(p, t0)
  \/ \E p \in Procs : SweepWrite(p)
  \/ \E p \in Procs : DeadlockAbort(p)
  \/ Tick

\* Transactions overlap, two at a time.
Spec == Init /\ [][Next]_vars

\* One call at a time, each running to its end before the next starts; what
\* each call returns is recorded in last.
InitSerial ==
  /\ stock = InitStock
  /\ total = InitStock
  /\ res = [id \in Ids |-> NoRow]
  /\ now = 0
  /\ tx = [p \in Procs |-> IdleTx]
  /\ jobs = {}
  /\ last = NoLast
  /\ trans = [id \in Ids |-> 0]
  /\ rel = [id \in Ids |-> 0]
  /\ race = NoRace
  /\ mode = "serial"
  /\ early = NoEarly

NextSerial ==
  \/ \E p \in Procs, u \in UserInputs, pr \in ProductInputs, q \in Qtys :
       CreateBegin(p, u, pr, q)
  \/ \E p \in Procs : CreateFind(p)
  \/ \E p \in Procs : CreateRenew(p)
  \/ \E p \in Procs : CreateCommit(p)
  \/ \E p \in Procs, id \in Ids : CancelBegin(p, id)
  \/ \E p \in Procs : CancelWrite(p)
  \/ \E p \in Procs, id \in Ids : CompleteBegin(p, id)
  \/ \E p \in Procs : CompleteExpireWrite(p)
  \/ \E p \in Procs, j \in jobs, keep \in BOOLEAN : Fire(p, j, keep)
  \/ \E p \in Procs : ExpireWrite(p)
  \/ \E p \in Procs, t0 \in 0..MaxTime : SweepSelect(p, t0)
  \/ \E p \in Procs : SweepWrite(p)
  \/ Tick

SpecSerial == InitSerial /\ [][NextSerial]_vars

\* N create calls of quantity 1 for product p1, seeded with S, and nothing
\* else; up to three of them in flight at once.
InitRace ==
  /\ \E s \in 0..(MaxStock + 1), n \in 0..(MaxRes + 1) :
       /\ stock = [InitStock EXCEPT !["p1"] = s]
       /\ total = stock
       /\ race = [n |-> n, s |-> s, left |-> n, ok |-> 0, insufficient |-> 0]
  /\ res = [id \in Ids |-> NoRow]
  /\ now = 0
  /\ tx = [p \in Procs |-> IdleTx]
  /\ jobs = {}
  /\ last = NoLast
  /\ trans = [id \in Ids |-> 0]
  /\ rel = [id \in Ids |-> 0]
  /\ mode = "race"
  /\ early = NoEarly

NextRace ==
  \/ \E p \in Procs, u \in Users : CreateBegin(p, u, "p1", 1)
  \/ \E p \in Procs : CreateFind(p)
  \/ \E p \in Procs : CreateRenew(p)
  \/ \E p \in Procs : CreateCommit(p)
  \/ Tick

SpecRace == InitRace /\ [][NextRace]_vars

\* The application as its modules wire it, with every delayed job lost:
\* ReservationsModule provides ReservationsService, ReservationsProcessor and
\* ReservationsGateway, and no module provides ReservationsCleanupService, so
\* its @Cron method is never registered and no sweep ever runs.  What is left
\* is the calls users make, one at a time, and the clock.  A handler that has
\* started runs to its end and the clock advances; users need not call.
NextAsWired ==
  \/ \E p \in Procs, u \in UserInputs, pr \in ProductInputs, q \in Qtys :
       CreateBegin(p, u, pr, q)
  \/ \E p \in Procs : CreateFind(p)
  \/ \E p \in Procs : CreateRenew(p)
  \/ \E p \in Procs : CreateCommit(p)
  \/ \E p \in Procs, id \in Ids : CancelBegin(p, id)
  \/ \E p \in Procs : CancelWrite(p)
  \/ \E p \in Procs, id \in Ids : CompleteBegin(p, id)
  \/ \E p \in Procs : CompleteExpireWrite(p)
  \/ Tick

HandlersRun ==
  /\ WF_vars(\E p \in Procs : CreateFind(p))
  /\ WF_vars(\E p \in Procs : CreateRenew(p))
  /\ WF_vars(\E p \in Procs : CreateCommit(p))
  /\ WF_vars(\E p \in Procs : CancelWrite(p))
  /\ WF_vars(\E p \in Procs : CompleteExpireWrite(p))
  /\ WF_vars(Tick)

SpecAsWired == InitSerial /\ [][NextAsWired]_vars /\ HandlersRun

\* The timer path alone: every delayed job is delivered at or after its time
\* and then removed from the queue, and no sweep runs.  Creates start early
\* enough for the job they schedule to fall within the clock's range.
CreateBeginInTime(p, u, pr, q) ==
  /\ now + TTL <= MaxTime
  /\ CreateBegin(p, u, pr, q)

NextTimerOnly ==
  \/ \E p \in Procs, u \in UserInputs, pr \in ProductInputs, q \in Qtys :
       CreateBeginInTime(p, u, pr, q)
  \/ \E p \in Procs : CreateFind(p)
  \/ \E p \in Procs : CreateRenew(p)
  \/ \E p \in Procs : CreateCommit(p)
  \/ \E p \in Procs, id \in Ids : CancelBegin(p, id)
  \/ \E p \in Procs : CancelWrite(p)
  \/ \E p \in Procs, id \in Ids : CompleteBegin(p, id)
  \/ \E p \in Procs : CompleteExpireWrite(p)
  \/ \E p \in Procs, j \in jobs, keep \in BOOLEAN : Fire(p, j, keep)
  \/ \E p \in Procs : ExpireWrite(p)
  \/ Tick

JobsDelivered ==
  /\ WF_vars(\E p \in Procs, j \in jobs : Fire(p, j, FALSE))
  /\ WF_vars(\E p \in Procs : ExpireWrite(p))

SpecTimerOnly ==
  InitSerial /\ [][NextTimerOnly]_vars /\ HandlersRun /\ JobsDelivered

\* ------------------------------------- scheduler failure, the demo reset
\* await this.reservationsQueue.add(...) is awaited inside the transaction
\* callback of createReservation: when the queue rejects the job the callback
\* throws, the transaction rolls back and the handler throws.
CreateScheduleFails(p) ==
  /\ tx[p].pc = "c_commit"
  /\ FinishNoWrite(p, "create", 0, "schedule_failed")
  /\ UNCHANGED <<jobs, race>>

\* resetDatabase inside its transaction: every reservation and every product
\* is deleted, the sample products are saved, and emitProductsUpdated is
\* called, all before the callback returns and the transaction commits.
\* (The new products get new ids; the model keeps the names of the old ones.)
ResetBegin(p) ==
  /\ BeginSlot(p)
  /\ tx' = [tx EXCEPT ![p] =
              [IdleTx EXCEPT !.pc = "r_commit", !.op = "reset",
                 !.pl = Products, !.rl = Rows,
                 !.pst = InitStock,
                 !.pres = [id \in Rows |-> NoRow],
                 !.pub = {"products"}]]
  /\ last' = NoLast /\ UNCHANGED <<mode, early>>
  /\ UNCHANGED <<stock, total, res, now, jobs, trans, rel, race>>

\* The reset commits.  The Bull queue is not touched: jobs stay.
ResetCommit(p) ==
  LET t == tx[p]
  IN /\ t.pc = "r_commit"
     /\ stock' = Overlay(stock, t.pst)
     /\ total' = Overlay(total, t.pst)
     /\ res' = Overlay(res, t.pres)
     /\ trans' = [id \in Ids |-> 0]
     /\ rel' = [id \in Ids |-> 0]
     /\ Finish(p, "reset", 0, "reset")
     /\ UNCHANGED <<now, jobs, race>>

\* Calls one at a time, with the scheduler allowed to fail and the demo
\* reset among the calls.
NextInfra ==
  \/ \E p \in Procs, u \in UserInputs, pr \in ProductInputs, q \in Qtys :
       CreateBegin(p, u, pr, q)
  \/ \E p \in Procs : CreateFind(p)
  \/ \E p \in Procs : CreateRenew(p)
  \/ \E p \in Procs : CreateCommit(p)
  \/ \E p \in Procs : CreateScheduleFails(p)
  \/ \E p \in Procs, id \in Ids : CancelBegin(p, id)
  \/ \E p \in Procs : CancelWrite(p)
  \/ \E p \in Procs, id \in Ids : CompleteBegin(p, id)
  \/ \E p \in Procs : CompleteExpireWrite(p)
  \/ \E p \in Procs, j \in jobs, keep \in BOOLEAN : Fire(p, j, keep)
  \/ \E p \in Procs : ExpireWrite(p)
  \/ \E p \in Procs : ResetBegin(p)
  \/ \E p \in Procs : ResetCommit(p)
  \/ Tick

SpecInfra == InitSerial /\ [][NextInfra]_vars

\* -------------------------------- the earlier ReservationsService variant
\* reservations.service.ts holds an earlier ReservationsService with the same
\* three calls.  Run one call at a time it is a function of its database d
\* (availableStock and reservation rows), the call and the clock t.  A throw
\* inside the transaction rolls back: the database is as before.

\* Mutant: the earlier variant refuses a create that takes the last unit.
EarlierInsufficientOrEqual(s, q) == s <= q

\* if (product.availableStock < quantity) throw 'Not enough stock'
EarlierInsufficient(s, q) == s < q

\* createReservation: no userId check; quantity check, product lock, stock
\* check, deduction, lookup, merge or insert, renew-all.
EarlierCreate(d, u, pr, q, t) ==
  IF q <= 0 THEN [d EXCEPT !.out = "InvalidArgument"]
  ELSE IF pr \notin Products THEN [d EXCEPT !.out = "NotFound"]
  ELSE IF EarlierInsufficient(d.stock[pr], q)
       THEN [d EXCEPT !.out = "InsufficientStock"]
  ELSE
    LET m == {id \in Ids : /\ d.res[id].status = "ACTIVE"
                           /\ d.res[id].user = u
                           /\ d.res[id].prod = pr}
        free == {id \in Ids : d.res[id].status = "NONE"}
        rid == IF m # {} THEN CHOOSE id \in m : \A j \in m : id <= j
               ELSE CHOOSE id \in free : \A j \in free : id <= j
        newExpiresAt == t + TTL
        r1 == IF m # {}
              THEN [d.res EXCEPT ![rid] = [@ EXCEPT !.qty = @ + q,
                                                    !.exp = newExpiresAt]]
              ELSE [d.res EXCEPT ![rid] =
                      [user |-> u, prod |-> pr, qty |-> q,
                       status |-> "ACTIVE", exp |-> newExpiresAt]]
        r2 == [id \in Ids |->
                 IF r1[id].status = "ACTIVE" /\ r1[id].user = u
                 THEN [r1[id] EXCEPT !.exp = newExpiresAt] ELSE r1[id]]
    IN [d EXCEPT !.stock = [@ EXCEPT ![pr] = @ - q], !.res = r2,
                 !.out = "ok"]

\* completeReservation: a COMPLETED row is returned; an EXPIRED or overdue
\* row makes it throw 'Reservation already expired' inside the transaction,
\* which rolls back the restore it made for an overdue ACTIVE row.
EarlierComplete(d, id, t) ==
  LET row == d.res[id]
  IN IF row.status = "NONE" THEN [d EXCEPT !.out = "NotFound"]
     ELSE IF row.status = "COMPLETED" THEN [d EXCEPT !.out = "ok"]
     ELSE IF row.exp <= t \/ row.status = "EXPIRED"
          THEN [d EXCEPT !.out = "AlreadyExpired"]
     ELSE [d EXCEPT !.res = [@ EXCEPT ![id] = [@ EXCEPT !.status = "COMPLETED"]],
                    !.out = "ok"]

\* cancelReservation: a row that is not ACTIVE is returned; an ACTIVE row is
\* released and becomes EXPIRED with expiresAt = new Date().
EarlierCancel(d, id, t) ==
  LET row == d.res[id]
  IN IF row.status = "NONE" THEN [d EXCEPT !.out = "NotFound"]
     ELSE IF row.status # "ACTIVE" THEN [d EXCEPT !.out = "ok"]
     ELSE [d EXCEPT !.stock = [@ EXCEPT ![row.prod] = @ + row.qty],
                    !.res = [@ EXCEPT ![id] = [@ EXCEPT !.status = "EXPIRED",
                                                        !.exp = t]],
                    !.out = "ok"]

\* The next call of a series, made dt after the answer to the one before: a
\* create with a userId, a cancel, or a complete of a reservation that is not
\* an overdue ACTIVE one.  The earlier variant answers it here; the
\* gateway-notifying variant answers it in the steps that follow.
EarlierCall(c, dt) ==
  LET t == now + dt
      d == [early EXCEPT !.call = c]
  IN /\ \A p \in Procs : tx[p].pc = "idle"
     /\ early.call.op = "none" \/ last.op # "none"
     /\ t <= MaxTime
     /\ \/ /\ c.op = "create"
           /\ c.user \in Users /\ c.id = 0
           /\ Cardinality(Rows) < MaxRes
           /\ early' = EarlierCreate(d, c.user, c.prod, c.qty, t)
        \/ /\ c.op = "cancel"
           /\ c.user = "" /\ c.prod = "" /\ c.qty = 0 /\ c.id \in Ids
           /\ early' = EarlierCancel(d, c.id, t)
        \/ /\ c.op = "complete"
           /\ c.user = "" /\ c.prod = "" /\ c.qty = 0 /\ c.id \in Ids
           /\ ~(res[c.id].status = "ACTIVE" /\ res[c.id].exp <= t)
           /\ ~(early.res[c.id].status = "ACTIVE" /\ early.res[c.id].exp <= t)
           /\ early' = EarlierComplete(d, c.id, t)
     /\ now' = t
     /\ last' = NoLast
     /\ UNCHANGED <<stock, total, res, tx, jobs, trans, rel, race, mode>>

\* The call the earlier variant has answered and the other has yet to take.
Pending(op) ==
  /\ early.call.op = op
  /\ last.op = "none"

Calls ==
  [op : {"create"}, user : Users, prod : ProductInputs, qty : Qtys, id : {0}]
    \cup [op : {"cancel", "complete"}, user : {""}, prod : {""}, qty : {0},
          id : Ids]

\* Both variants take the same series of calls, one call at a time.
NextAgree ==
  \/ \E c \in Calls, dt \in 0..1 : EarlierCall(c, dt)
  \/ \E p \in Procs : /\ Pending("create")
                       /\ CreateBegin(p, early.call.user, early.call.prod,
                                       early.call.qty)
  \/ \E p \in Procs : CreateFind(p)
  \/ \E p \in Procs : CreateRenew(p)
  \/ \E p \in Procs : CreateCommit(p)
  \/ \E p \in Procs : Pending("cancel") /\ CancelBegin(p, early.call.id)
  \/ \E p \in Procs : CancelWrite(p)
  \/ \E p \in Procs : Pending("complete") /\ CompleteBegin(p, early.call.id)

SpecAgree == InitSerial /\ [][NextAgree]_vars

\* ================================================================ claims
ActiveOf(pr) == {id \in Ids : res[id].status = "ACTIVE" /\ res[id].prod = pr}
ActiveQty(pr) == SumOver(ActiveOf(pr), [id \in Ids |-> res[id].qty])

CompletedOf(pr) ==
  {id \in Ids : res[id].status = "COMPLETED" /\ res[id].prod = pr}

\* C1 (Conservation): in every committed state, for every product,
\* availableStock plus the quantities of its ACTIVE reservations equals the
\* product's total stock.  Stated for the products none of whose reservations
\* has been completed, so that the total is the seeded stock whether or not
\* units sold by complete are counted out of it.
C1_Conservation ==
  \A pr \in Products :
    CompletedOf(pr) = {} => stock[pr] + ActiveQty(pr) = total[pr]

\* C2 (No overselling): in every committed state, for every product,
\* availableStock plus the quantities of its ACTIVE reservations never
\* exceeds the product's total stock.
C2_NoOversell ==
  \A pr \in Products : stock[pr] + ActiveQty(pr) <= total[pr]

\* C3 (Single active row): in every committed state every (userId, productId)
\* pair has at most one ACTIVE reservation; a repeated create merges.
C3_SingleActiveRow ==
  \A u \in Users, pr \in Products :
    Cardinality({id \in Ids : /\ res[id].status = "ACTIVE"
                              /\ res[id].user = u
                              /\ res[id].prod = pr}) <= 1

\* A row that two creates of its user have gone into (each create leaves a
\* delayed job for the row it inserted or merged into) is still the only
\* ACTIVE row of its pair.
C3_Witness ==
  \E id \in Ids :
    /\ res[id].status = "ACTIVE"
    /\ res[id].qty >= 2
    /\ Cardinality({j \in jobs : j.id = id}) >= 2

Terminal == {"COMPLETED", "EXPIRED"}

\* C4 (Terminal monotonicity): once a reservation is COMPLETED or EXPIRED no
\* step changes its status or its quantity; the only status changes ever
\* taken are ACTIVE -> COMPLETED and ACTIVE -> EXPIRED (and the insertion of
\* a new ACTIVE row).
C4_TerminalMonotonic ==
  [][\A id \in Ids :
       /\ res[id].status \in Terminal =>
            /\ res'[id].status = res[id].status
            /\ res'[id].qty = res[id].qty
       /\ res[id].status = "ACTIVE" =>
            res'[id].status \in {"ACTIVE", "COMPLETED", "EXPIRED"}
       /\ res[id].status = "NONE" => res'[id].status \in {"NONE", "ACTIVE"}]_vars

\* A COMPLETED row while a create of the same user for the same product has
\* passed its lookup and renew-all and is about to commit.
C4_Witness ==
  \E id \in Ids, p \in Procs :
    /\ res[id].status \in Terminal
    /\ tx[p].pc = "c_commit"
    /\ tx[p].user = res[id].user
    /\ tx[p].prod = res[id].prod

\* C5 (Exactly one winner): whatever complete, cancel, timer expire and sweep
\* race on a reservation, at most one transaction ever takes it out of ACTIVE
\* and its quantity is released to stock at most once: a row is terminal iff
\* exactly one transition was committed for it, and EXPIRED iff exactly one
\* release was committed for it.
C5_OneWinner ==
  \A id \in Ids :
    /\ trans[id] <= 1
    /\ rel[id] <= 1
    /\ (trans[id] = 1) <=> (res[id].status \in Terminal)
    /\ (rel[id] = 1) <=> (res[id].status = "EXPIRED")

\* A row released once at this instant while its timer job is due and still
\* queued: the timer firing is the contender that finds the row terminal.
C5_Witness ==
  \E id \in Ids :
    /\ res[id].status = "EXPIRED"
    /\ rel[id] = 1
    /\ res[id].exp = now
    /\ \E j \in jobs : j.id = id /\ j.fireAt <= now

AllIdle == \A p \in Procs : tx[p].pc = "idle"

\* C6 (Race safety): N create calls of quantity 1 for one product seeded
\* with S, overlapping in any way and with nothing else running, end with
\* min(N, S) successes, N - min(N, S) InsufficientStock failures and
\* availableStock = S - min(N, S).
C6_RaceSafety ==
  (mode = "race" /\ race.left = 0 /\ AllIdle) =>
    LET m == Min(race.n, race.s)
    IN /\ race.ok = m
       /\ race.insufficient = race.n - m
       /\ stock["p1"] = race.s - m

\* The end of a run of three calls of which some succeeded and some failed.
C6_Witness ==
  /\ mode = "race" /\ race.left = 0 /\ AllIdle
  /\ race.n = 3
  /\ race.ok >= 1
  /\ race.insufficient >= 1

\* C7: complete(id) on an ACTIVE reservation whose expiresAt has passed fails
\* the call with AlreadyExpired, leaving the reservation EXPIRED and its
\* quantity released exactly once.
C7_CompleteOverdueFails ==
  (last.op = "complete" /\ last.branch = "expired_on_read") =>
    /\ last.out = "AlreadyExpired"
    /\ res[last.id].status = "EXPIRED"
    /\ rel[last.id] = 1

\* A call of expire(id) starts in this step: it either returns at once or
\* goes on to the release.
ExpireCallOn(id) ==
  \E p \in Procs :
    /\ tx[p].pc = "idle"
    /\ \/ tx'[p].pc = "write" /\ tx'[p].op = "expire" /\ tx'[p].id = id
       \/ tx'[p].pc = "idle" /\ last'.op = "expire" /\ last'.id = id

\* C8 (Idempotent expiry): an expire(id) that runs right after an expire(id)
\* has returned changes nothing: status, quantity and availableStock are what
\* the first call left.
C8_IdempotentExpiry ==
  [][(last.op = "expire" /\ ExpireCallOn(last.id)) =>
       /\ AllIdle'
       /\ stock' = stock
       /\ res' = res
       /\ rel' = rel
       /\ trans' = trans]_vars

\* The first delivery has expired the reservation and the same job, still
\* queued and due, is delivered again.
C8_Witness ==
  /\ last.op = "expire"
  /\ last.branch = "expired"
  /\ res[last.id].status = "EXPIRED"
  /\ \E j \in jobs : j.id = last.id /\ j.fireAt <= now

\* Transaction p commits (or returns) in this step.
Ends(p) == tx[p].pc # "idle" /\ tx'[p].pc = "idle"

\* C9 (No premature expiry): a timer firing goes on to the release only for
\* an ACTIVE row whose expiresAt has passed, and a committing expire or sweep
\* changes only rows that were ACTIVE and overdue, and changes stock only if
\* it changes such a row; so a stale firing leaves the renewed reservation
\* ACTIVE and the stock as it was.
C9_NoPrematureExpiry ==
  [][\A p \in Procs :
       /\ (tx[p].pc = "idle" /\ tx'[p].pc = "write" /\ tx'[p].op = "expire") =>
            /\ res[tx'[p].id].status = "ACTIVE"
            /\ res[tx'[p].id].exp <= now
       /\ (tx[p].op \in {"expire", "sweep"} /\ Ends(p)) =>
            /\ \A id \in Ids :
                 res'[id] # res[id] =>
                   /\ res[id].status = "ACTIVE"
                   /\ res[id].exp <= now
                   /\ res'[id].status = "EXPIRED"
            /\ stock' # stock => res' # res]_vars

\* A due timer job for a reservation that was renewed after the job was
\* scheduled: the row is ACTIVE and its expiresAt is still ahead.
C9_Witness ==
  \E j \in jobs :
    /\ j.fireAt <= now
    /\ res[j.id].status = "ACTIVE"
    /\ res[j.id].exp > now

\* C10 (Renew-all on create): when a create commits, every ACTIVE reservation
\* of its user has the expiresAt the created or merged reservation received,
\* and no reservation of another user has its expiresAt changed.
C10_RenewAll ==
  [][\A p \in Procs :
       (tx[p].pc = "c_commit" /\ Ends(p)) =>
         /\ \A id \in Ids :
              (res'[id].status = "ACTIVE" /\ res'[id].user = tx[p].user) =>
                res'[id].exp = tx[p].newExp
         /\ \A id \in Ids :
              (res[id].status # "NONE" /\ res[id].user # tx[p].user) =>
                res'[id].exp = res[id].exp]_vars

\* The ACTIVE rows of (u, pr) in the committed state.
ActiveRowsOf(u, pr) ==
  {id \in Ids : res[id].status = "ACTIVE" /\ res[id].user = u
                /\ res[id].prod = pr}

\* C11 (Create insert/merge effect): a create(u, p, q) that succeeds lowers
\* p's availableStock by exactly q, leaves every other product's stock, and
\* either, (u, p) having no ACTIVE reservation, inserts one new ACTIVE
\* reservation of quantity q, or, one existing, raises that reservation's
\* quantity by q and inserts no row; the call returns normally.
C11_CreateEffect ==
  [][\A p \in Procs :
       (tx[p].pc = "c_commit" /\ Ends(p)) =>
         LET t == tx[p]
             m == ActiveRowsOf(t.user, t.prod)
         IN /\ last'.op = "create" /\ last'.out = "ok"
            /\ stock'[t.prod] = stock[t.prod] - t.qty
            /\ \A pr \in Products \ {t.prod} : stock'[pr] = stock[pr]
            /\ m = {} =>
                 \E id \in Ids \ Rows :
                   /\ res'[id] = [user |-> t.user, prod |-> t.prod,
                                  qty |-> t.qty, status |-> "ACTIVE",
                                  exp |-> t.newExp]
                   /\ {i \in Ids : res'[i].status # "NONE"} = Rows \cup {id}
                   /\ last'.branch = "insert" /\ last'.id = id
            /\ m # {} =>
                 \E id \in m :
                   /\ m = {id}
                   /\ res'[id].qty = res[id].qty + t.qty
                   /\ res'[id].status = "ACTIVE"
                   /\ {i \in Ids : res'[i].status # "NONE"} = Rows
                   /\ last'.branch = "merge" /\ last'.id = id]_vars

\* The scenario of the claim, scaled to the seeded stock: two creates of one
\* user merged into one reservation holding the whole stock of the product,
\* and the create that followed failed with InsufficientStock.
C11_Witness ==
  /\ last.op = "create"
  /\ last.out = "InsufficientStock"
  /\ \E id \in Ids :
       /\ res[id].status = "ACTIVE"
       /\ res[id].qty = total[res[id].prod]
       /\ res[id].qty >= 2
       /\ Cardinality({j \in jobs : j.id = id}) >= 2
       /\ stock[res[id].prod] = 0
       /\ Rows = {id}

CreateErrors == {"InvalidArgument", "NotFound", "InsufficientStock"}

\* C12 (Create is atomic on error): a create that fails with InvalidArgument,
\* NotFound or InsufficientStock leaves the committed state as it was: no
\* stock changed, no reservation inserted or modified, no expiresAt renewed,
\* no job scheduled; and no create gets past the checks with a quantity that
\* is not positive, an unknown product or less stock than the quantity.
C12_CreateAtomicOnError ==
  [][/\ (last'.op = "create" /\ last'.out \in CreateErrors) =>
          /\ stock' = stock
          /\ res' = res
          /\ jobs' = jobs
          /\ AllIdle'
     /\ \A p \in Procs :
          (tx[p].pc = "idle" /\ tx'[p].op = "create") =>
            /\ tx'[p].qty > 0
            /\ tx'[p].prod \in Products
            /\ stock[tx'[p].prod] >= tx'[p].qty]_vars

\* A create has just failed for lack of stock on a product that keeps one
\* free unit and one reserved unit.
C12_Witness ==
  /\ last.op = "create"
  /\ last.out = "InsufficientStock"
  /\ \E pr \in Products : stock[pr] = 1 /\ ActiveQty(pr) = 1
  /\ \E id \in Ids : res[id].status = "ACTIVE" /\ res[id].exp > now

\* C13: cancel(id) on a reservation that is COMPLETED or EXPIRED returns the
\* row and changes nothing (no stock released, however often it is repeated);
\* cancel(id) on an unknown id fails with NotFound and changes nothing; only
\* an ACTIVE reservation is ever taken on to the release by cancel.
C13_CancelNoop ==
  [][/\ \A id \in Ids :
          (/\ AllIdle /\ AllIdle'
           /\ last'.op = "cancel" /\ last'.id = id
           /\ res[id].status # "ACTIVE") =>
            /\ stock' = stock
            /\ res' = res
            /\ rel' = rel
            /\ trans' = trans
            /\ last'.out = IF res[id].status = "NONE" THEN "NotFound" ELSE "ok"
     /\ \A p \in Procs :
          (tx[p].pc = "idle" /\ tx'[p].op = "cancel") =>
            res[tx'[p].id].status = "ACTIVE"]_vars

\* cancel has just returned from an already COMPLETED reservation.
C13_Witness ==
  /\ last.op = "cancel"
  /\ last.branch = "not_active"
  /\ res[last.id].status = "COMPLETED"
  /\ stock[res[last.id].prod] + res[last.id].qty = total[res[last.id].prod]

\* C14: complete(id) on an already COMPLETED reservation returns it, and on an
\* already EXPIRED reservation fails with AlreadyExpired; either way status,
\* quantity and every availableStock are as before the call, and complete
\* goes on to a release only for an ACTIVE reservation.
C14_CompleteTerminal ==
  [][/\ \A id \in Ids :
          (/\ AllIdle /\ AllIdle'
           /\ last'.op = "complete" /\ last'.id = id
           /\ res[id].status \in Terminal) =>
            /\ stock' = stock
            /\ res' = res
            /\ rel' = rel
            /\ trans' = trans
            /\ last'.out = IF res[id].status = "COMPLETED" THEN "ok"
                           ELSE "AlreadyExpired"
     /\ \A p \in Procs :
          (tx[p].pc = "idle" /\ tx'[p].op = "complete") =>
            res[tx'[p].id].status = "ACTIVE"]_vars

\* complete has just failed on a reservation that had expired before.
C14_Witness ==
  /\ last.op = "complete"
  /\ last.out = "AlreadyExpired"
  /\ res[last.id].status = "EXPIRED"
  /\ rel[last.id] = 1

\* C15 (Sweep backstop liveness): with no delayed job ever firing and the
\* application running as wired, every ACTIVE reservation whose expiresAt has
\* passed is eventually EXPIRED, with its quantity back in availableStock, or
\* renewed.
C15_SweepBackstop ==
  \A id \in Ids :
    (res[id].status = "ACTIVE" /\ res[id].exp <= now) ~>
      \/ res[id].status = "EXPIRED" /\ rel[id] = 1
      \/ res[id].status = "ACTIVE" /\ res[id].exp > now

\* C16: availableStock >= 0 for every product in every committed state.
C16_NonNegativeStock == \A pr \in Products : stock[pr] >= 0

\* The last units of a product are taken: two users hold ACTIVE reservations
\* that together make up its whole stock.
C16_Witness ==
  \E pr \in Products :
    /\ stock[pr] = 0
    /\ Cardinality(ActiveOf(pr)) = 2
    /\ ActiveQty(pr) = total[pr]

\* C17 (Deadlock freedom by lock order): no set of concurrently running
\* operations reaches a cyclic lock wait; in particular no transaction waits
\* for a Product row lock while it holds a Reservation row lock.
C17_DeadlockFree ==
  \A p \in Procs :
    /\ ~InCycle(p)
    /\ (tx[p].rl # {} /\ tx[p].pl = {}) => ProductHolders(p, {tx[p].prod}) = {}

Releasers == {"cancel", "expire", "complete", "sweep"}

\* C18 (No lost stock update): a committing cancel, expire, complete or sweep
\* leaves every product's availableStock at the value committed just before
\* it plus the quantities of the reservations of that product it expired, so
\* that a release and a create (or two releases) that overlap on a product
\* and both commit are both reflected in its availableStock.
C18_NoLostUpdate ==
  [][\A p \in Procs :
       (tx[p].op \in Releasers /\ Ends(p)) =>
         \A pr \in Products :
           stock'[pr] =
             stock[pr] +
               SumOver({id \in Ids : /\ res[id].prod = pr
                                     /\ res[id].status = "ACTIVE"
                                     /\ res'[id].status = "EXPIRED"},
                       [id \in Ids |-> res[id].qty])]_vars

\* C19 (Shared expiry window): in every committed state all ACTIVE
\* reservations of one user have the same expiresAt.
C19_SharedWindow ==
  \A i, j \in Ids :
    (/\ res[i].status = "ACTIVE" /\ res[j].status = "ACTIVE"
     /\ res[i].user = res[j].user) =>
      res[i].exp = res[j].exp

\* C20 (Timer path sufficient on its own): with every delayed job delivered
\* and no sweep, every ACTIVE reservation is eventually taken out of ACTIVE
\* unless its user makes a further create call.
C20_TimerSufficient ==
  \A id \in Ids :
    (res[id].status = "ACTIVE") ~>
      \/ res[id].status # "ACTIVE"
      \/ \E p \in Procs : tx[p].op = "create" /\ tx[p].user = res[id].user

\* C21 (Stock effect of each transition): in the step that commits it, every
\* ACTIVE -> EXPIRED transition raises the availableStock of the
\* reservation's product by exactly the reservation's quantity, and an
\* ACTIVE -> COMPLETED transition leaves every availableStock unchanged.
C21_StockEffect ==
  [][\A id \in Ids :
       /\ (res[id].status = "ACTIVE" /\ res'[id].status = "COMPLETED") =>
            stock' = stock
       /\ (res[id].status = "ACTIVE" /\ res'[id].status = "EXPIRED") =>
            stock'[res[id].prod] =
              stock[res[id].prod] +
                SumOver({j \in Ids : /\ res[j].prod = res[id].prod
                                      /\ res[j].status = "ACTIVE"
                                      /\ res'[j].status = "EXPIRED"},
                        [j \in Ids |-> res[j].qty])]_vars

\* C22 (Publish-after-commit ordering): no stock-changed or
\* user-reservations-changed notification has been emitted by an operation
\* whose transaction has not yet committed; a call that has returned has
\* emitted its notifications only after its commit.
C22_PublishAfterCommit ==
  \A p \in Procs : tx[p].pc # "idle" => tx[p].pub = {}

\* C23 (expire publishes only on a transition): an expireReservation call
\* that did not take the row from ACTIVE to EXPIRED (row absent, already
\* COMPLETED or EXPIRED, or not yet due) has emitted neither event.
C23_ExpirePublishesOnTransition ==
  (last.op = "expire" /\ last.branch # "expired") => last.pub = {}

\* C24 (Secondary-effect isolation): a create that has deducted the stock and
\* inserted or merged its reservation commits both and returns normally,
\* whether or not the delayed expiry job could be scheduled.
C24_SecondaryEffectIsolation ==
  [][\A p \in Procs :
       (tx[p].op = "create" /\ tx[p].pc = "c_commit" /\ Ends(p)) =>
         /\ last'.op = "create" /\ last'.out = "ok"
         /\ stock' = Overlay(stock, tx[p].pst)
         /\ res'[last'.id].status = "ACTIVE"
         /\ res'[last'.id].user = tx[p].user]_vars

\* C25 (Sweep isolation): within one sweep pass each overdue reservation is
\* expired in its own transaction: as soon as the pass has processed a
\* reservation, that reservation is committed as EXPIRED and its stock
\* release is committed, so that nothing that happens to the reservations
\* still to be processed can undo it.
C25_SweepIsolation ==
  \A p \in Procs :
    tx[p].op = "sweep" =>
      \A id \in DOMAIN tx[p].pres :
        /\ res[id].status = "EXPIRED"
        /\ rel[id] = 1

\* C26 (Terminal expiresAt): whenever a step takes a reservation to COMPLETED
\* or EXPIRED its expiresAt is set to the time of that step, and no later
\* step modifies the expiresAt of a terminal reservation.
C26_TerminalExpiresAt ==
  [][\A id \in Ids :
       /\ (res[id].status = "ACTIVE" /\ res'[id].status \in Terminal) =>
            res'[id].exp = now
       /\ (res[id].status \in Terminal /\ res'[id].status \in Terminal) =>
            res'[id].exp = res[id].exp]_vars

\* C27 (Serial accounting): when calls run one at a time, in every committed
\* state and for every product, availableStock plus the quantities of the
\* product's ACTIVE reservations plus the quantities of its COMPLETED
\* reservations equals the stock the product was seeded with.
C27_SerialAccounting ==
  \A pr \in Products :
    stock[pr] + ActiveQty(pr)
      + SumOver(CompletedOf(pr), [id \in Ids |-> res[id].qty]) = total[pr]

\* A product with one unit sold (COMPLETED) and one unit released (EXPIRED).
C27_Witness ==
  \E pr \in Products, a, b \in Ids :
    /\ res[a].prod = pr /\ res[a].status = "COMPLETED"
    /\ res[b].prod = pr /\ res[b].status = "EXPIRED" /\ rel[b] = 1
    /\ stock[pr] = total[pr] - res[a].qty

\* C28 (Overdue-merge revival): a create for (u, p, q) that runs while u's
\* ACTIVE reservation for p is overdue and unreclaimed merges into it: the
\* row stays ACTIVE, gains q and gets the create's new expiresAt, and no
\* stock is released for it.  From then until the new deadline the row is
\* not selected by a sweep, a timer delivery for it changes nothing, and
\* complete makes it COMPLETED.
C28_OverdueMergeRevival ==
  [][/\ \A p \in Procs, e \in Ids :
          ( /\ tx[p].op = "create" /\ tx[p].pc = "c_commit" /\ Ends(p)
            /\ res[e].status = "ACTIVE"
            /\ res[e].user = tx[p].user /\ res[e].prod = tx[p].prod
            /\ res[e].exp <= tx[p].newExp - TTL ) =>
            /\ last'.out = "ok" /\ last'.id = e
            /\ res'[e] = [res[e] EXCEPT !.qty = @ + tx[p].qty,
                                        !.exp = tx[p].newExp]
            /\ Cardinality({id \in Ids : res'[id].status # "NONE"}) =
                 Cardinality(Rows)
            /\ rel'[e] = rel[e]
     /\ \A id \in Ids :
          (res[id].status = "ACTIVE" /\ res[id].exp > now) =>
            /\ \A p \in Procs :
                 (tx[p].pc = "idle" /\ tx'[p].op = "sweep") =>
                   id \notin tx'[p].rl
            /\ (last'.op = "expire" /\ last'.id = id) =>
                 /\ last'.branch = "not_due"
                 /\ res' = res /\ stock' = stock
            /\ (last'.op = "complete" /\ last'.id = id) =>
                 /\ last'.out = "ok"
                 /\ res'[id] = [res[id] EXCEPT !.status = "COMPLETED"]]_vars

\* The only row there is was inserted with quantity 1, became overdue, was
\* merged into by a second create of quantity 1 (its two delayed jobs are at
\* least TTL apart), and has then been completed.
C28_Witness ==
  \E id \in Ids :
    /\ Rows = {id}
    /\ res[id].qty = 2
    /\ \E j1, j2 \in jobs :
         j1.id = id /\ j2.id = id /\ j2.fireAt >= j1.fireAt + TTL
    /\ last.op = "complete" /\ last.id = id /\ last.branch = "completed"
    /\ res[id].status = "COMPLETED"

\* C29 (Frame): a create, complete, cancel or expire call changes the
\* availableStock of no product but that of the reservation it created,
\* merged into or was called on, and the status and quantity of no other
\* reservation; the only other rows it writes at all are, for create, the
\* ACTIVE rows of the same user, whose expiresAt becomes the new row's; a
\* call that fails changes nothing.
C29_Frame ==
  [][last'.op \in {"create", "complete", "cancel", "expire"} =>
       IF last'.id \in Ids /\ res'[last'.id].status # "NONE"
       THEN LET r == last'.id
            IN /\ \A pr \in Products :
                    stock'[pr] # stock[pr] => pr = res'[r].prod
               /\ \A id \in Ids \ {r} :
                    /\ res'[id].status = res[id].status
                    /\ res'[id].qty = res[id].qty
                    /\ res'[id] # res[id] =>
                         /\ last'.op = "create"
                         /\ res[id].status = "ACTIVE"
                         /\ res[id].user = res'[r].user
                         /\ res'[id] = [res[id] EXCEPT !.exp = res'[r].exp]
       ELSE stock' = stock /\ res' = res]_vars

\* A create has just inserted a row for a product while the same user's
\* ACTIVE row for the other product was renewed to the same expiresAt (later
\* than the delayed job scheduled when that row was created).
C29_Witness ==
  /\ last.op = "create" /\ last.branch = "insert"
  /\ \E a \in Ids \ {last.id} :
       /\ res[a].status = "ACTIVE"
       /\ res[a].user = res[last.id].user
       /\ res[a].prod # res[last.id].prod
       /\ res[a].exp = res[last.id].exp
       /\ \E j \in jobs : j.id = a /\ j.fireAt < res[a].exp

\* C30 (Agreement of the two service implementations): over every series of
\* create (with a userId), cancel and complete calls made one at a time, with
\* complete never called on an overdue ACTIVE reservation, each call gets the
\* same outcome from the earlier variant and from the gateway-notifying one,
\* and after it the two databases hold the same availableStock for every
\* product and the same status and quantity for every reservation.
C30_VariantsAgree ==
  last.op # "none" =>
    /\ last.op = early.call.op
    /\ last.out = early.out
    /\ stock = early.stock
    /\ \A id \in Ids :
         /\ res[id].status = early.res[id].status
         /\ res[id].qty = early.res[id].qty

\* Both variants have refused a complete of a cancelled reservation with
\* 'Reservation already expired', after agreeing on the create and the cancel.
C30_Witness ==
  /\ last.op = "complete" /\ last.out = "AlreadyExpired"
  /\ early.out = "AlreadyExpired"
  /\ early.res[last.id].status = "EXPIRED"
  /\ res[last.id].status = "EXPIRED"
  /\ early.stock = InitStock
====
